---- MODULE Spec2Model ----
(***************************************************************************)
(* Model of the time-lapse camera of main-raspbi.py (class                 *)
(* TimeLapseCamera): the session record log.txt, the project directories   *)
(* under projects/, the start-up sequence (read_log_file, get_projects,    *)
(* select_project), the capture step, the playback loop, and the time      *)
(* stamp that map_time_255 puts on a frame and map_255_time reads back.    *)
(*                                                                         *)
(* Text is a sequence of one-character strings, so that what               *)
(* write_log_file formats and what read_log_file parses (readline, strip,  *)
(* int, float) are computed character by character.  Time is in whole      *)
(* seconds; a float t prints as the decimal digits of t followed by ".0".  *)
(***************************************************************************)
EXTENDS Integers, Sequences, FiniteSets, TLC

\* ------------------------------------------------------------------ bounds
\* the clock stops advancing here
MaxTime == 6
\* no capture is taken once img_capture_index has reached this
MaxIndex == 3
\* most frames a project directory holds before the first start
MaxInitFrames == 2
\* largest elapsed_time stamped on a frame, in seconds: more than one day
MaxElapsed == 90000

\* --------------------------------------------------------- class constants
CAPTURE_INTERVAL == 5
DEFAULT_PLAYBACK_SPEED == 1
PLAYBACK_SPEEDS == <<16, 32, 64, 128, 256>>
\* the modulus of the hours in map_time_255
SecondsPerDay == 86400
DEFAULT_PROJECT == <<"d", "e", "f", "a", "u", "l", "t">>

\* ------------------------------------------------------------------- text
NL == "\n"
Whitespace == {" ", NL}
Digits == <<"0", "1", "2", "3", "4", "5", "6", "7", "8", "9">>

IsDigit(c) == \E d \in 1..10 : Digits[d] = c
DigitVal(c) == (CHOOSE d \in 1..10 : Digits[d] = c) - 1

RECURSIVE StrNat(_)
StrNat(n) == IF n < 10 THEN <<Digits[n + 1]>>
             ELSE StrNat(n \div 10) \o <<Digits[(n % 10) + 1]>>

\* str(int)
StrInt(n) == IF n < 0 THEN <<"-">> \o StrNat(0 - n) ELSE StrNat(n)

\* str(float) of a whole number of seconds
StrFloat(t) == StrInt(t) \o <<".", "0">>

AllDigits(s) == Len(s) > 0 /\ \A i \in 1..Len(s) : IsDigit(s[i])

RECURSIVE NatOf(_)
NatOf(s) == IF Len(s) = 0 THEN 0
            ELSE 10 * NatOf(SubSeq(s, 1, Len(s) - 1)) + DigitVal(s[Len(s)])

\* str.strip(): leading and trailing whitespace removed
RECURSIVE LStrip(_)
LStrip(s) == IF Len(s) > 0 /\ s[1] \in Whitespace THEN LStrip(Tail(s)) ELSE s

RECURSIVE RStrip(_)
RStrip(s) == IF Len(s) > 0 /\ s[Len(s)] \in Whitespace
             THEN RStrip(SubSeq(s, 1, Len(s) - 1)) ELSE s

Strip(s) == RStrip(LStrip(s))

\* file.readline(): the text up to and including the first newline
RECURSIVE LineEnd(_, _)
LineEnd(s, i) == IF i > Len(s) THEN Len(s)
                 ELSE IF s[i] = NL THEN i ELSE LineEnd(s, i + 1)

ReadLine(s) == SubSeq(s, 1, LineEnd(s, 1))
AfterLine(s) == SubSeq(s, LineEnd(s, 1) + 1, Len(s))

\* int(s) of a stripped line: an optional sign and decimal digits
Unsigned(s) == IF Len(s) > 0 /\ s[1] \in {"+", "-"} THEN Tail(s) ELSE s
IsInt(s) == AllDigits(Unsigned(s))
IntOf(s) == IF Len(s) > 0 /\ s[1] = "-" THEN 0 - NatOf(Unsigned(s))
            ELSE NatOf(Unsigned(s))

\* float(s) of a stripped line, for the times of the model (whole seconds):
\* digits, or digits "." zeros
DotAt(s) == IF \E i \in 1..Len(s) : s[i] = "."
            THEN CHOOSE i \in 1..Len(s) : s[i] = "." /\ \A j \in 1..(i - 1) : s[j] # "."
            ELSE 0
IntPart(s) == IF DotAt(s) = 0 THEN s ELSE SubSeq(s, 1, DotAt(s) - 1)
FracPart(s) == IF DotAt(s) = 0 THEN <<>> ELSE SubSeq(s, DotAt(s) + 1, Len(s))
IsFloat(s) == /\ AllDigits(IntPart(s))
              /\ \A i \in 1..Len(FracPart(s)) : FracPart(s)[i] = "0"
FloatOf(s) == NatOf(IntPart(s))


\* ------------------------------------------------------------------ state
VARIABLES
    log_file,   \* log.txt: whether it exists, and its text
    dirs,       \* projects/<name>: whether it exists, the indices i of its files
                \* image_<i>.jpg, and whether it holds a sub-directory
    listing,    \* the order in which os.listdir(projects) returns the directories
    self,       \* the fields of the TimeLapseCamera object of the running process
    pc,         \* where the process is
    now,        \* time.time()
    outcome,    \* how the last process ended
    loaded,     \* the three session fields as read_log_file left them at start-up
    branch,     \* the branch select_project took at start-up
    captures,   \* successful captures completed by the running process
    saved,      \* the session a completed write_log_file put into log.txt, if the
                \* file still holds it
    codec       \* a time stamp on its way through map_time_255 and map_255_time

vars == <<log_file, dirs, listing, self, pc, now, outcome, loaded, branch, captures, saved,
          codec>>

NameA == <<"a">>
NameASpace == <<"a", " ">>
ProjectNames == {NameA, NameASpace, DEFAULT_PROJECT}

Keys == {"f", "b", "p", "s", "a", "q", "none"}

NoDir == [exists |-> FALSE, frames |-> {}, subdir |-> FALSE]
NoLog == [exists |-> FALSE, text |-> <<>>]
NoSession == [active_project |-> <<>>, img_capture_index |-> 0, program_start_time |-> 0]
NoSaved == [valid |-> FALSE, session |-> NoSession]
Truncated == [exists |-> TRUE, text |-> <<>>]
\* no time stamp is being encoded or decoded
NoStamp == [stage |-> "none", elapsed |-> 0, stats |-> <<0, 0, 0>>, time |-> <<0, 0, 0>>]

\* __init__ at time t
NewCamera(t) ==
    [ cap |-> FALSE,
      active_project |-> <<>>,
      selected_project |-> <<>>,
      selected_project_index |-> 0,
      img_capture_index |-> 0,
      img_max_index |-> 0,
      img_shown_index |-> 1,
      key |-> "none",
      playback_speed |-> DEFAULT_PLAYBACK_SPEED,
      playback_speed_index |-> 0,
      projects |-> <<>>,
      projects_dict |-> <<>>,
      program_start_time |-> t,
      last_picture_time |-> t - CAPTURE_INTERVAL ]

Session(obj) ==
    [ active_project |-> obj.active_project,
      img_capture_index |-> obj.img_capture_index,
      program_start_time |-> obj.program_start_time ]

\* ------------------------------------------------------------ session record
\* the text write_log_file writes
LogText(obj) ==
    obj.active_project \o <<NL>> \o StrInt(obj.img_capture_index)
        \o <<NL>> \o StrFloat(obj.program_start_time)

\* read_log_file: the fields are assigned one by one, int() and float() raise
\* ValueError on a line they cannot parse, a missing file is caught
ReadLogFile(file, obj) ==
    IF ~file.exists THEN [raised |-> FALSE, obj |-> obj]
    ELSE LET rest1 == AfterLine(file.text)
             line2 == Strip(ReadLine(rest1))
             line3 == Strip(ReadLine(AfterLine(rest1)))
             o1 == [obj EXCEPT !.active_project = Strip(ReadLine(file.text))]
             o2 == [o1 EXCEPT !.img_capture_index = IntOf(line2)]
             o3 == [o2 EXCEPT !.program_start_time = FloatOf(line3)]
         IN  IF ~IsInt(line2) THEN [raised |-> TRUE, obj |-> o1]
             ELSE IF ~IsFloat(line3) THEN [raised |-> TRUE, obj |-> o2]
             ELSE [raised |-> FALSE, obj |-> o3]

\* ------------------------------------------------------------ project catalog
\* get_projects: the directories in listing order; the default project is
\* created when there is none
ScanListing(ls) == IF ls = <<>> THEN <<DEFAULT_PROJECT>> ELSE ls

ScanDirs(ds, ls) ==
    IF ls = <<>>
    THEN [ds EXCEPT ![DEFAULT_PROJECT] = [exists |-> TRUE, frames |-> {}, subdir |-> FALSE]]
    ELSE ds

\* the number of regular files of a project directory
NumberOfFiles(d) == Cardinality(d.frames)

ProjectsDict(ds, ls) ==
    [p \in {ls[i] : i \in 1..Len(ls)} |-> NumberOfFiles(ds[p])]

\* is_directory_empty: os.scandir yields no entry at all
IsDirectoryEmpty(d) == d.frames = {} /\ ~d.subdir

InList(p, ls) == \E i \in 1..Len(ls) : ls[i] = p

\* list.index
IndexOf(p, ls) == (CHOOSE i \in 1..Len(ls) : ls[i] = p /\ \A j \in 1..(i - 1) : ls[j] # p) - 1

EmptyPositions(ds, ls) == {i \in 1..Len(ls) : IsDirectoryEmpty(ds[ls[i]])}

\* mutant: the last empty project instead of the first
LastEmpty(ds, ls) ==
    ls[CHOOSE i \in EmptyPositions(ds, ls) : \A j \in EmptyPositions(ds, ls) : i >= j]

FirstEmpty(ds, ls) ==
    ls[CHOOSE i \in EmptyPositions(ds, ls) : \A j \in EmptyPositions(ds, ls) : i <= j]

\* mutant: the session is reset in the branch that keeps the active project too
SelectProjectAlwaysReset(obj, ds, t) ==
    IF EmptyPositions(ds, obj.projects) # {}
    THEN [ obj |-> [obj EXCEPT !.active_project = FirstEmpty(ds, obj.projects),
                               !.program_start_time = t,
                               !.img_capture_index = 0],
           writes |-> TRUE, branch |-> "empty" ]
    ELSE IF InList(obj.active_project, obj.projects)
    THEN [ obj |-> [obj EXCEPT !.program_start_time = t, !.img_capture_index = 0],
           writes |-> TRUE, branch |-> "kept" ]
    ELSE [ obj |-> [obj EXCEPT !.active_project = DEFAULT_PROJECT],
           writes |-> TRUE, branch |-> "default" ]

\* select_project at time t: the object it leaves, whether it writes the log,
\* and the branch taken
SelectProject(obj, ds, t) ==
    IF EmptyPositions(ds, obj.projects) # {}
    THEN [ obj |-> [obj EXCEPT !.active_project = FirstEmpty(ds, obj.projects),
                               !.program_start_time = t,
                               !.img_capture_index = 0],
           writes |-> TRUE, branch |-> "empty" ]
    ELSE IF InList(obj.active_project, obj.projects)
    THEN [ obj |-> obj, writes |-> FALSE, branch |-> "kept" ]
    ELSE [ obj |-> [obj EXCEPT !.active_project = DEFAULT_PROJECT],
           writes |-> TRUE, branch |-> "default" ]

\* setup_project lines 84-85
SelectActive(obj) ==
    [obj EXCEPT !.selected_project = obj.active_project,
                !.selected_project_index = IndexOf(obj.active_project, obj.projects)]


\* ------------------------------------------------------------------ playback
\* mutant: the index stops at the last speed instead of wrapping to the first
AdvanceSpeedSaturate(obj) ==
    [obj EXCEPT
       !.playback_speed = PLAYBACK_SPEEDS[obj.playback_speed_index + 1]
                            * (IF obj.key = "b" THEN -1 ELSE 1),
       !.playback_speed_index = IF obj.playback_speed_index + 1 < Len(PLAYBACK_SPEEDS)
                                THEN obj.playback_speed_index + 1
                                ELSE obj.playback_speed_index]

\* mutant: the index is rotated before the speed is read from the table
AdvanceSpeedRotateFirst(obj) ==
    LET i == (obj.playback_speed_index + 1) % Len(PLAYBACK_SPEEDS)
    IN  [obj EXCEPT
           !.playback_speed = PLAYBACK_SPEEDS[i + 1] * (IF obj.key = "b" THEN -1 ELSE 1),
           !.playback_speed_index = i]

\* mutant: only key f rotates the index
AdvanceSpeedForwardOnly(obj) ==
    [obj EXCEPT
       !.playback_speed = PLAYBACK_SPEEDS[obj.playback_speed_index + 1]
                            * (IF obj.key = "b" THEN -1 ELSE 1),
       !.playback_speed_index = IF obj.key = "f"
                                THEN (obj.playback_speed_index + 1) % Len(PLAYBACK_SPEEDS)
                                ELSE obj.playback_speed_index]

\* handle_key_press lines 228-232: keys f and b
AdvanceSpeed(obj) ==
    [obj EXCEPT
       !.playback_speed = PLAYBACK_SPEEDS[obj.playback_speed_index + 1]
                            * (IF obj.key = "b" THEN -1 ELSE 1),
       !.playback_speed_index = (obj.playback_speed_index + 1) % Len(PLAYBACK_SPEEDS)]

\* mutant: key p turns the direction round
TogglePlaybackReverse(obj) ==
    [obj EXCEPT !.playback_speed = IF obj.playback_speed > 0
                                   THEN -1 * DEFAULT_PLAYBACK_SPEED
                                   ELSE DEFAULT_PLAYBACK_SPEED]

\* handle_key_press lines 233-238: key p
TogglePlayback(obj) ==
    [obj EXCEPT !.playback_speed = IF obj.playback_speed > 0
                                   THEN DEFAULT_PLAYBACK_SPEED
                                   ELSE -1 * DEFAULT_PLAYBACK_SPEED]

\* mutant: key a stops at the first project instead of wrapping to the last
SwitchProjectNoWrapBack(obj) ==
    LET i == IF obj.key = "s"
             THEN (obj.selected_project_index + 1) % Len(obj.projects)
             ELSE IF obj.selected_project_index = 0 THEN 0
             ELSE obj.selected_project_index - 1
    IN  [obj EXCEPT !.selected_project_index = i,
                    !.selected_project = obj.projects[i + 1],
                    !.img_shown_index = 1,
                    !.img_max_index = obj.projects_dict[obj.projects[i + 1]]]

\* handle_key_press lines 239-250: keys s and a
SwitchProject(obj) ==
    LET i == (obj.selected_project_index + (IF obj.key = "s" THEN 1 ELSE -1))
                % Len(obj.projects)
    IN  [obj EXCEPT !.selected_project_index = i,
                    !.selected_project = obj.projects[i + 1],
                    !.img_shown_index = 1,
                    !.img_max_index = obj.projects_dict[obj.projects[i + 1]]]

\* handle_key_press, the branches that return True
HandleKey(obj) ==
    IF obj.key \in {"f", "b"} THEN AdvanceSpeed(obj)
    ELSE IF obj.key = "p" THEN TogglePlayback(obj)
    ELSE IF obj.key \in {"s", "a"} THEN SwitchProject(obj)
    ELSE obj

\* handle_key_press when waitKey has returned key k
Press(obj, k) == HandleKey([obj EXCEPT !.key = k])

\* n calls of handle_key_press, each on key k
RECURSIVE PressTimes(_, _, _)
PressTimes(obj, k, n) == IF n = 0 THEN obj ELSE Press(PressTimes(obj, k, n - 1), k)

\* mutant: the index is not reduced modulo img_max_index
NextShownIndexNoWrap(shown, speed, max) ==
    IF max # 0 THEN shown + (IF speed > 0 THEN 1 ELSE -1) ELSE 0

\* play_movie lines 219-222
NextShownIndex(shown, speed, max) ==
    IF max # 0 THEN (shown + (IF speed > 0 THEN 1 ELSE -1)) % max ELSE 0

\* whole seconds cv2.waitKey may block: int(1000 * CAPTURE_INTERVAL / abs(speed)) ms
WaitSeconds(speed) ==
    LET a == IF speed < 0 THEN 0 - speed ELSE speed
        ms == (1000 * CAPTURE_INTERVAL) \div a
    IN  (ms + 999) \div 1000

\* ------------------------------------------------------------------- capture
\* mutant: the capture is due one second early
CaptureDueEarly(obj, t) == t - obj.last_picture_time >= CAPTURE_INTERVAL - 1

\* main_loop line 261
CaptureDue(obj, t) == t - obj.last_picture_time >= CAPTURE_INTERVAL

\* cv2.imwrite of image_<img_capture_index>.jpg into the active project
WriteFrame(ds, obj) ==
    IF ds[obj.active_project].exists
    THEN [ds EXCEPT ![obj.active_project].frames = @ \cup {obj.img_capture_index}]
    ELSE ds

\* mutant: the index advances by two, so one index is skipped
RecordCaptureSkip(obj, t) ==
    [obj EXCEPT !.last_picture_time = t,
                !.img_max_index = IF obj.selected_project = obj.active_project
                                  THEN obj.img_capture_index ELSE @,
                !.img_capture_index = @ + 2]

\* mutant: img_max_index follows the capture whichever project is selected
RecordCaptureAnyProject(obj, t) ==
    [obj EXCEPT !.last_picture_time = t,
                !.img_max_index = obj.img_capture_index,
                !.img_capture_index = @ + 1]

\* capture_image lines 154-157
RecordCapture(obj, t) ==
    [obj EXCEPT !.last_picture_time = t,
                !.img_max_index = IF obj.selected_project = obj.active_project
                                  THEN obj.img_capture_index ELSE @,
                !.img_capture_index = @ + 1]


\* ---------------------------------------------------------------- time stamp
\* mutant: the hours are not reduced to one day
map_time_255_no_day(elapsed_time) ==
    LET hours == elapsed_time \div 3600
        minutes == (elapsed_time % 3600) \div 60
        seconds == elapsed_time % 60
    IN  <<hours * 10 + 4, minutes * 4 + 2, seconds * 4 + 2>>

\* map_time_255: % and // bind alike and group from the left
map_time_255(elapsed_time) ==
    LET hours == (elapsed_time % SecondsPerDay) \div 3600
        minutes == (elapsed_time % 3600) \div 60
        seconds == elapsed_time % 60
    IN  <<hours * 10 + 4, minutes * 4 + 2, seconds * 4 + 2>>

\* mutant: the hours channel is divided by the step of the other two
map_255_time_one_step(stats) == <<stats[1] \div 4, stats[2] \div 4, stats[3] \div 4>>

\* map_255_time
map_255_time(stats) == <<stats[1] \div 10, stats[2] \div 4, stats[3] \div 4>>

\* ------------------------------------------------------------- initial states
\* a project directory before the first start: absent, or holding the frames
\* image_0 .. image_<n-1>
InitDirStates(subdirs) ==
    {NoDir} \cup {[exists |-> TRUE, frames |-> 0..(n - 1), subdir |-> sd] :
                    n \in 0..MaxInitFrames, sd \in subdirs}

Existing(ds) == {p \in ProjectNames : ds[p].exists}

Orders(S) == {o \in [1..Cardinality(S) -> S] : \A i, j \in 1..Cardinality(S) : o[i] = o[j] => i = j}

\* sessions a run of the program can have left in log.txt: the index does
\* not exceed the files of the project named; the start time is in the past
InitSessions(ds) ==
    {[active_project |-> x[1], img_capture_index |-> x[2], program_start_time |-> 0] :
        x \in {y \in ProjectNames \X (0..MaxInitFrames) : y[2] <= NumberOfFiles(ds[y[1]])}}

Written(session) == [exists |-> TRUE, text |-> LogText(session)]

MalformedRecords ==
    {[exists |-> TRUE, text |-> t] :
        t \in { <<>>,
                <<"a">>,
                <<"a", NL, "x", NL, "0", ".", "0">>,
                <<"a", NL, "1", NL>>,
                <<"a", NL, "1", NL, "x">> }}

InitProcess ==
    /\ self = NewCamera(0)
    /\ pc = "off"
    /\ now = 0
    /\ outcome = "none"
    /\ loaded = NoSession
    /\ branch = "none"
    /\ captures = 0
    /\ codec = NoStamp

\* every file system of the bounded family
InitStartup ==
    /\ dirs \in [ProjectNames -> InitDirStates({FALSE})] \cup
                 {[d EXCEPT ![NameA].subdir = TRUE] :
                    d \in {e \in [ProjectNames -> InitDirStates({FALSE})] : e[NameA].exists}}
    /\ listing \in Orders(Existing(dirs))
    /\ \/ log_file \in {NoLog} \cup MalformedRecords /\ saved = NoSaved
       \/ \E s \in InitSessions(dirs) :
            log_file = Written(s) /\ saved = [valid |-> TRUE, session |-> s]
    /\ InitProcess

\* the file systems the whole program is run from: a fresh environment; one
\* empty directory whose name ends in a blank; two projects with frames, the
\* record naming the first; the projects "a" and "a " with frames, the record
\* naming "a "; and a project with frames, named by the record, beside an
\* empty one
Frames(n) == [exists |-> TRUE, frames |-> 0..(n - 1), subdir |-> FALSE]
NoDirs == [p \in ProjectNames |-> NoDir]

InitFiles ==
    { [dirs |-> NoDirs, listing |-> <<>>, saved |-> NoSaved],
      [dirs |-> [NoDirs EXCEPT ![NameASpace] = Frames(0)],
       listing |-> <<NameASpace>>, saved |-> NoSaved],
      [dirs |-> [NoDirs EXCEPT ![NameA] = Frames(MaxInitFrames),
                               ![DEFAULT_PROJECT] = Frames(1)],
       listing |-> <<NameA, DEFAULT_PROJECT>>,
       saved |-> [valid |-> TRUE,
                  session |-> [active_project |-> NameA,
                               img_capture_index |-> MaxInitFrames,
                               program_start_time |-> 0]]],
      [dirs |-> [NoDirs EXCEPT ![NameA] = Frames(1),
                               ![NameASpace] = Frames(MaxInitFrames)],
       listing |-> <<NameA, NameASpace>>,
       saved |-> [valid |-> TRUE,
                  session |-> [active_project |-> NameASpace,
                               img_capture_index |-> MaxInitFrames,
                               program_start_time |-> 0]]],
      [dirs |-> [NoDirs EXCEPT ![NameA] = Frames(MaxInitFrames),
                               ![DEFAULT_PROJECT] = Frames(0)],
       listing |-> <<NameA, DEFAULT_PROJECT>>,
       saved |-> [valid |-> TRUE,
                  session |-> [active_project |-> NameA,
                               img_capture_index |-> MaxInitFrames,
                               program_start_time |-> 0]]] }

Init ==
    /\ \E f \in InitFiles :
         /\ dirs = f.dirs
         /\ listing = f.listing
         /\ saved = f.saved
         /\ log_file = IF f.saved.valid THEN Written(f.saved.session) ELSE NoLog
    /\ InitProcess

\* ----------------------------------------------------------------- actions
EndProcess(how) ==
    /\ pc' = "off"
    /\ outcome' = how
    /\ self' = NewCamera(0)
    /\ captures' = 0

\* python main-raspbi.py: __init__, initialize_camera, and setup_project up to
\* the first write_log_file (its open() truncates log.txt) or, when
\* select_project writes nothing, to the end of initialize
Boot ==
    /\ pc = "off"
    /\ now < MaxTime
    /\ UNCHANGED codec
    /\ now' = now + 1
    /\ \E opened \in BOOLEAN :
         IF ~opened
         THEN /\ EndProcess("exit 1")
              /\ loaded' = NoSession /\ branch' = "none"
              /\ UNCHANGED <<log_file, dirs, listing, saved>>
         ELSE LET r == ReadLogFile(log_file, [NewCamera(now') EXCEPT !.cap = TRUE])
                  ls == ScanListing(listing)
                  ds == ScanDirs(dirs, listing)
                  scanned == [r.obj EXCEPT !.projects = ls,
                                           !.projects_dict = ProjectsDict(ds, ls)]
                  sel == SelectProject(scanned, ds, now')
              IN  /\ loaded' = Session(r.obj)
                  /\ IF r.raised
                     THEN /\ EndProcess("ValueError in read_log_file")
                          /\ branch' = "none"
                          /\ UNCHANGED <<log_file, dirs, listing, saved>>
                     ELSE /\ dirs' = ds
                          /\ listing' = ls
                          /\ branch' = sel.branch
                          /\ outcome' = "none"
                          /\ captures' = 0
                          /\ IF sel.writes
                             THEN /\ self' = sel.obj
                                  /\ log_file' = Truncated
                                  /\ saved' = NoSaved
                                  /\ pc' = "setup_save"
                             ELSE /\ self' = SelectActive(sel.obj)
                                  /\ UNCHANGED <<log_file, saved>>
                                  /\ pc' = "key"

\* the rest of write_log_file in select_project, then setup_project lines
\* 84-87: list.index raises ValueError when the active project is not listed
SetupSave ==
    /\ pc = "setup_save"
    /\ UNCHANGED codec
    /\ log_file' = Written(self)
    /\ saved' = [valid |-> TRUE, session |-> Session(self)]
    /\ IF InList(self.active_project, self.projects)
       THEN /\ self' = SelectActive(self)
            /\ pc' = "key"
            /\ UNCHANGED <<outcome, captures>>
       ELSE EndProcess("ValueError in setup_project")
    /\ UNCHANGED <<dirs, listing, now, loaded, branch>>

\* main_loop line 259: handle_key_press on the key of the last waitKey
HandleKeyPress ==
    /\ pc = "key"
    /\ UNCHANGED codec
    /\ IF self.key = "q"
       THEN /\ EndProcess("exit 0")
            /\ loaded' = NoSession /\ branch' = "none"
       ELSE /\ self' = HandleKey(self)
            /\ pc' = "capture"
            /\ UNCHANGED <<outcome, captures, loaded, branch>>
    /\ UNCHANGED <<log_file, dirs, listing, now, saved>>

\* mutant: last_picture_time is set although cap.read returned no frame
CaptureImageFailedReadStamps ==
    /\ pc = "capture"
    /\ UNCHANGED codec
    /\ IF CaptureDue(self, now)
       THEN \E ret \in BOOLEAN :
              IF ret
              THEN /\ self.img_capture_index < MaxIndex
                   /\ dirs' = WriteFrame(dirs, self)
                   /\ self' = self
                   /\ pc' = "cap_frame"
              ELSE /\ dirs' = dirs
                   /\ self' = [self EXCEPT !.last_picture_time = now]
                   /\ pc' = "play"
       ELSE /\ dirs' = dirs
            /\ self' = self
            /\ pc' = "play"
    /\ UNCHANGED <<log_file, listing, now, outcome, loaded, branch, captures, saved>>

\* main_loop lines 261-262 and capture_image up to cv2.imwrite
CaptureImage ==
    /\ pc = "capture"
    /\ UNCHANGED codec
    /\ IF CaptureDue(self, now)
       THEN \E ret \in BOOLEAN :
              IF ret
              THEN /\ self.img_capture_index < MaxIndex
                   /\ dirs' = WriteFrame(dirs, self)
                   /\ pc' = "cap_frame"
              ELSE /\ dirs' = dirs
                   /\ pc' = "play"
       ELSE /\ dirs' = dirs
            /\ pc' = "play"
    /\ UNCHANGED <<log_file, listing, self, now, outcome, loaded, branch, captures, saved>>

\* capture_image lines 154-157 and the open() of write_log_file
CaptureRecord ==
    /\ pc = "cap_frame"
    /\ UNCHANGED codec
    /\ self' = RecordCapture(self, now)
    /\ log_file' = Truncated
    /\ saved' = NoSaved
    /\ pc' = "cap_save"
    /\ UNCHANGED <<dirs, listing, now, outcome, loaded, branch, captures>>

\* the write of write_log_file, which ends capture_image
CaptureSave ==
    /\ pc = "cap_save"
    /\ UNCHANGED codec
    /\ log_file' = Written(self)
    /\ saved' = [valid |-> TRUE, session |-> Session(self)]
    /\ captures' = captures + 1
    /\ pc' = "play"
    /\ UNCHANGED <<dirs, listing, self, now, outcome, loaded, branch>>

\* play_movie: the index advances, waitKey blocks and returns a key
PlayMovie ==
    /\ pc = "play"
    /\ UNCHANGED codec
    /\ \E k \in Keys, d \in 0..WaitSeconds(self.playback_speed) :
         /\ now + d <= MaxTime
         /\ now' = now + d
         /\ self' = [self EXCEPT
                       !.img_shown_index = NextShownIndex(self.img_shown_index,
                                              self.playback_speed, self.img_max_index),
                       !.key = k]
    /\ pc' = "key"
    /\ UNCHANGED <<log_file, dirs, listing, outcome, loaded, branch, captures, saved>>

\* power loss or kill at any point of a running process
Crash ==
    /\ pc # "off"
    /\ UNCHANGED codec
    /\ EndProcess("crash")
    /\ loaded' = NoSession /\ branch' = "none"
    /\ UNCHANGED <<log_file, dirs, listing, now, saved>>

Next ==
    \/ Boot
    \/ SetupSave
    \/ HandleKeyPress
    \/ CaptureImage
    \/ CaptureRecord
    \/ CaptureSave
    \/ PlayMovie
    \/ Crash

NextStartup ==
    \/ Boot
    \/ SetupSave

Spec == Init /\ [][Next]_vars

SpecStartup == InitStartup /\ [][NextStartup]_vars

\* the time stamp alone: add_timestamp_to_image has computed elapsed_time for
\* a frame, no process is running
InitStamp ==
    /\ dirs = NoDirs /\ listing = <<>> /\ log_file = NoLog /\ saved = NoSaved
    /\ self = NewCamera(0) /\ pc = "off" /\ now = 0 /\ outcome = "none"
    /\ loaded = NoSession /\ branch = "none" /\ captures = 0
    /\ \E e \in 0..MaxElapsed : codec = [NoStamp EXCEPT !.stage = "elapsed", !.elapsed = e]

\* add_timestamp_to_image lines 168-169: the patch of the frame takes the
\* three channels of map_time_255
StampFrame ==
    /\ codec.stage = "elapsed"
    /\ codec' = [codec EXCEPT !.stage = "stamped", !.stats = map_time_255(codec.elapsed)]
    /\ UNCHANGED <<log_file, dirs, listing, self, pc, now, outcome, loaded, branch, captures, saved>>

\* update_display line 204: the patch is decoded by map_255_time
ReadStamp ==
    /\ codec.stage = "stamped"
    /\ codec' = [codec EXCEPT !.stage = "shown", !.time = map_255_time(codec.stats)]
    /\ UNCHANGED <<log_file, dirs, listing, self, pc, now, outcome, loaded, branch, captures, saved>>

NextStamp ==
    \/ StampFrame
    \/ ReadStamp

SpecStamp == InitStamp /\ [][NextStamp]_vars



\* ------------------------------------------------------------------ claims
Running == pc \in {"key", "capture", "cap_frame", "cap_save", "play"}

\* what the text of log.txt holds: the project named on its first line and
\* the index on its second
RecordName(text) ==
    LET l == ReadLine(text)
    IN  IF Len(l) > 0 /\ l[Len(l)] = NL THEN SubSeq(l, 1, Len(l) - 1) ELSE l
RecordIndexLine(text) == Strip(ReadLine(AfterLine(text)))
FramesOf(name) == IF name \in ProjectNames THEN NumberOfFiles(dirs[name]) ELSE 0

\* C1: in every state, the index held by the session record on disk (when the
\* record holds one) is at most the number of frames in the directory of the
\* project the record names.
RecordWithinFrames ==
    (log_file.exists /\ IsInt(RecordIndexLine(log_file.text)))
        => IntOf(RecordIndexLine(log_file.text)) <= FramesOf(RecordName(log_file.text))

\* C2: no capture writes image_<i> into the active project where a frame
\* image_<i> already exists.
NoFrameOverwritten ==
    [][(pc = "capture" /\ pc' = "cap_frame")
         => self.img_capture_index \notin dirs[self.active_project].frames]_vars

\* C3: within a run the capture index never decreases; it changes only when a
\* capture is recorded, then by exactly 1, and the frame image_<old index> is
\* in the active project; and in a run whose start-up reset the session to
\* index 0, between captures the index equals the number N of captures
\* completed and image_0 .. image_<N-1> are in the active project.
CaptureIndexSteps ==
    [][(Running /\ pc' # "off") =>
         /\ self'.active_project = self.active_project
         /\ IF pc = "cap_frame"
            THEN /\ self'.img_capture_index = self.img_capture_index + 1
                 /\ self.img_capture_index \in dirs[self.active_project].frames
            ELSE self'.img_capture_index = self.img_capture_index]_vars

CaptureIndexCounts ==
    (branch = "empty" /\ pc \in {"key", "capture", "play"}) =>
        /\ self.img_capture_index = captures
        /\ \A i \in 0..(captures - 1) : i \in dirs[self.active_project].frames

CaptureIndexMonotonic == []CaptureIndexCounts /\ CaptureIndexSteps

CaptureIndexWitness ==
    branch = "empty" /\ pc = "play" /\ captures = 2 /\ self.img_capture_index = 2

\* C9: after start-up, in every state, shownIndex is in [0, maxIndex) when
\* maxIndex > 0 and is 0 when maxIndex = 0.
ShownInBounds(obj) ==
    IF obj.img_max_index > 0
    THEN 0 <= obj.img_shown_index /\ obj.img_shown_index < obj.img_max_index
    ELSE obj.img_shown_index = 0

PlaybackBoundsAlways == Running => ShownInBounds(self)

\* C10: the index each play_movie produces is in [0, maxIndex) when
\* maxIndex > 0, stepping back from 0 gives maxIndex - 1, and it is 0 when
\* maxIndex = 0.
AdvanceInBounds ==
    [][(pc = "play" /\ pc' = "key") =>
         /\ ShownInBounds(self')
         /\ (self.img_max_index > 0 /\ self.playback_speed < 0 /\ self.img_shown_index = 0)
               => self'.img_shown_index = self.img_max_index - 1
         /\ (self.img_max_index > 0 /\ self.playback_speed > 0
                /\ self.img_shown_index = self.img_max_index - 1)
               => self'.img_shown_index = 0]_vars

AdvanceWrapWitness ==
    /\ pc = "key" /\ self.playback_speed < 0
    /\ self.img_max_index >= 2 /\ self.img_shown_index = self.img_max_index - 1


\* ---------------------------------------------------------- start-up claims
\* select_project has run: its write of the record is pending, or start-up
\* has completed (under SpecStartup nothing follows it)
Started == pc = "key"
Selected == pc \in {"setup_save", "key"}

NoFilePositions(obj) ==
    {i \in 1..Len(obj.projects) : obj.projects_dict[obj.projects[i]] = 0}

IsFirstOf(p, ls, S) == \E i \in S : ls[i] = p /\ \A j \in S : i <= j

SessionReset ==
    /\ self.img_capture_index = 0
    /\ self.program_start_time = now
    /\ Started => log_file = Written(self)

NoProjectWithoutFiles == \A i \in 1..Len(listing) : NumberOfFiles(dirs[listing[i]]) > 0

\* C5: when no project is empty and the active project read from the record
\* is a project name that is not in the catalog, start-up completes with the default project active, index 0 and
\* start time now.
FallbackResetsSession ==
    (branch = "default" /\ pc # "setup_save" /\ NoProjectWithoutFiles
        /\ loaded.active_project \in ProjectNames) =>
        /\ Started
        /\ self.active_project = DEFAULT_PROJECT
        /\ self.img_capture_index = 0
        /\ self.program_start_time = now

BootReads == pc = "off" /\ now' # now /\ outcome' # "exit 1"

\* C7: read_log_file on a missing or malformed record does not end the
\* process and leaves the defaults ("default", 0, now).
LoadNeverFails ==
    [][(BootReads /\ ~saved.valid) =>
         /\ outcome' # "ValueError in read_log_file"
         /\ loaded' = [active_project |-> DEFAULT_PROJECT, img_capture_index |-> 0,
                       program_start_time |-> now']]_vars

\* C8: read_log_file on the record a write_log_file of session s left yields s.
SaveLoadRoundTrip ==
    [][(BootReads /\ saved.valid) =>
         /\ outcome' # "ValueError in read_log_file"
         /\ loaded' = saved.session]_vars

\* ------------------------------------------------------------ capture claims
\* C11: a tick on which a capture is due and cap.read returns no frame goes
\* on to play_movie with the object, the record, the directories and
\* their frames, the clock and the process outcome all unchanged.
FailedReadChangesNothing ==
    [][(pc = "capture" /\ CaptureDue(self, now) /\ pc' \notin {"cap_frame", "off"}) =>
         /\ pc' = "play"
         /\ UNCHANGED <<self, log_file, saved, dirs, listing, now, outcome, loaded,
                        branch, captures>>]_vars

\* play_movie is reached with a capture still due: the read of this tick failed
FailedReadWitness ==
    /\ pc = "play" /\ CaptureDue(self, now)
    /\ captures = 1 /\ saved.valid

\* --------------------------------------------------------- time stamp claims
\* C12: for every elapsed_time in [0, 86400), map_255_time of map_time_255
\* is exactly (elapsed div 3600, (elapsed div 60) mod 60, elapsed mod 60).
CodecExact ==
    (codec.stage = "shown" /\ codec.elapsed < SecondsPerDay) =>
        codec.time = << codec.elapsed \div 3600,
                        (codec.elapsed \div 60) % 60,
                        codec.elapsed % 60 >>

CodecExactWitness ==
    /\ codec.stage = "shown" /\ codec.elapsed = SecondsPerDay - 1
    /\ codec.time = <<23, 59, 59>>

\* C13: for every elapsed_time >= 0, beyond one day too, each of the three
\* channels map_time_255 returns is in [2, 238], so neither 0 nor 255.
ChannelsInRange ==
    codec.stage \in {"stamped", "shown"} =>
        \A i \in 1..3 : 2 <= codec.stats[i] /\ codec.stats[i] <= 238

ChannelsWitness ==
    /\ codec.stage = "stamped" /\ codec.elapsed >= SecondsPerDay
    /\ codec.stats[1] = 4 /\ codec.stats[2] = 238 /\ codec.stats[3] = 238

\* ------------------------------------------------------------ playback claims
Abs(x) == IF x < 0 THEN 0 - x ELSE x
Sign(k) == IF k = "b" THEN -1 ELSE 1
OtherWay(k) == IF k = "b" THEN "f" ELSE "b"
KeyHandled(ks) == pc = "key" /\ self.key \in ks /\ pc' = "capture"

\* C14: from every state in which handle_key_press is called,
\* len(PLAYBACK_SPEEDS) presses of f in a row bring playback_speed_index
\* back to its value and leave the speed positive after each; likewise b,
\* with the speed negative.
SpeedCyclePeriodic ==
    pc = "key" =>
      \A k \in {"f", "b"} :
         /\ PressTimes(self, k, Len(PLAYBACK_SPEEDS)).playback_speed_index
               = self.playback_speed_index
         /\ \A n \in 1..Len(PLAYBACK_SPEEDS) :
               PressTimes(self, k, n).playback_speed * Sign(k) > 0

\* the press of f that takes the last speed of the table and wraps the index
SpeedCycleWitness ==
    /\ pc = "capture" /\ self.key = "f"
    /\ self.playback_speed = PLAYBACK_SPEEDS[Len(PLAYBACK_SPEEDS)]
    /\ self.playback_speed_index = 0

\* C15 as claimed: after a press of f or b the speed is the table entry at
\* the rotated index, times the sign of the key.
SpeedAtRotatedIndex ==
    [][KeyHandled({"f", "b"}) =>
         /\ self'.playback_speed_index
               = (self.playback_speed_index + 1) % Len(PLAYBACK_SPEEDS)
         /\ self'.playback_speed
               = PLAYBACK_SPEEDS[self'.playback_speed_index + 1] * Sign(self.key)]_vars

\* C15 as amended: a press of f or b sets the speed to the table entry at
\* the index as it was before the press, times the sign of the key, and then
\* rotates the index by one modulo the length of the table.
SpeedAtIndexBeforeRotation ==
    [][KeyHandled({"f", "b"}) =>
         /\ self'.playback_speed
               = PLAYBACK_SPEEDS[self.playback_speed_index + 1] * Sign(self.key)
         /\ self'.playback_speed_index
               = (self.playback_speed_index + 1) % Len(PLAYBACK_SPEEDS)
         /\ self'.playback_speed
               = PLAYBACK_SPEEDS[((self'.playback_speed_index - 1) % Len(PLAYBACK_SPEEDS)) + 1]
                   * Sign(self.key)]_vars

\* the first press after start-up is b: the speed is the first of the table
SpeedBeforeRotationWitness ==
    /\ pc = "capture" /\ self.key = "b"
    /\ self.playback_speed = -1 * PLAYBACK_SPEEDS[1]
    /\ self.playback_speed_index = 1

\* C16 as claimed: the magnitude a press of b selects is the same whether or
\* not a press of f comes before it, and likewise for f and b exchanged.
DirectionsIndependent ==
    pc = "key" =>
      \A k \in {"f", "b"} :
         Abs(Press(Press(self, OtherWay(k)), k).playback_speed)
           = Abs(Press(self, k).playback_speed)

\* C16 as amended: both directions step through the table on the one
\* playback_speed_index: a press of f or b selects the entry after the one
\* the press before it selected, whichever of the two keys that was.
DirectionsShareIndex ==
    pc = "key" =>
      \A k \in {"f", "b"}, j \in {"f", "b"} :
         /\ Abs(Press(self, k).playback_speed)
              = PLAYBACK_SPEEDS[self.playback_speed_index + 1]
         /\ Abs(Press(Press(self, j), k).playback_speed)
              = PLAYBACK_SPEEDS[((self.playback_speed_index + 1) % Len(PLAYBACK_SPEEDS)) + 1]

\* f was pressed once and then b: the speed is the second of the table
DirectionsShareWitness ==
    /\ pc = "capture" /\ self.key = "b"
    /\ self.playback_speed = -1 * PLAYBACK_SPEEDS[2]
    /\ self.playback_speed_index = 2

\* ----------------------------------------------------------- scheduler claims
SinceLastPicture == now - self.last_picture_time

\* a tick that is not due goes on to play_movie without a capture, and a
\* frame is written only on a tick that is due
TriggerIffDue ==
    /\ (pc = "capture" /\ SinceLastPicture < CAPTURE_INTERVAL /\ pc' # "off")
          => (pc' = "play" /\ UNCHANGED <<self, dirs, log_file>>)
    /\ (pc = "capture" /\ SinceLastPicture >= CAPTURE_INTERVAL /\ pc' # "off")
          => \/ pc' = "cap_frame"
             \/ pc' = "play" /\ UNCHANGED <<self, dirs, log_file>>

\* C17 as claimed: a capture is triggered exactly on the ticks with
\* now - last_picture_time >= CAPTURE_INTERVAL, and every trigger, whether
\* cap.read succeeds or not, sets last_picture_time to now.
EveryTriggerStampsTime ==
    [][/\ TriggerIffDue
       /\ (pc = "capture" /\ SinceLastPicture >= CAPTURE_INTERVAL /\ pc' = "play")
             => self'.last_picture_time = now
       /\ (pc = "cap_frame" /\ pc' = "cap_save")
             => self'.last_picture_time = now]_vars

\* C17 as amended: a capture is triggered exactly on the ticks with
\* now - last_picture_time >= CAPTURE_INTERVAL; a trigger whose read
\* succeeds sets last_picture_time to now, at least CAPTURE_INTERVAL after
\* its previous value; a trigger whose read fails leaves it as it was.
SuccessfulCaptureStampsTime ==
    [][/\ TriggerIffDue
       /\ (pc = "capture" /\ pc' = "play")
             => self'.last_picture_time = self.last_picture_time
       /\ (pc = "cap_frame" /\ pc' = "cap_save")
             => /\ self'.last_picture_time = now
                /\ now - self.last_picture_time >= CAPTURE_INTERVAL]_vars

\* the second capture of a run, CAPTURE_INTERVAL after the first
SecondCaptureWitness ==
    /\ pc = "cap_save" /\ captures = 1
    /\ self.last_picture_time = now
    /\ now - self.program_start_time = CAPTURE_INTERVAL

Playback(obj) ==
    << obj.selected_project, obj.selected_project_index, obj.img_shown_index,
       obj.img_max_index, obj.playback_speed, obj.playback_speed_index >>

InCapture == pc \in {"capture", "cap_frame", "cap_save"} /\ pc' # "off"

\* C18 as claimed: no step of a capture, successful or failed, changes a
\* playback field.
CaptureLeavesPlayback ==
    [][InCapture => Playback(self') = Playback(self)]_vars

\* C18 as amended: a capture leaves the selected project, the shown index,
\* the speed and the speed index unchanged; a successful capture sets
\* img_max_index to the index of the frame just written when the selected
\* project is the active one, and no other step of a capture changes it.
CaptureSetsOnlyMaxIndex ==
    [][InCapture =>
         /\ self'.selected_project = self.selected_project
         /\ self'.selected_project_index = self.selected_project_index
         /\ self'.img_shown_index = self.img_shown_index
         /\ self'.playback_speed = self.playback_speed
         /\ self'.playback_speed_index = self.playback_speed_index
         /\ self'.img_max_index =
               IF pc = "cap_frame" /\ self.selected_project = self.active_project
               THEN self.img_capture_index
               ELSE self.img_max_index]_vars

\* a frame has been captured into the active project while another project
\* is selected, and img_max_index is not the index of that frame
CaptureOtherProjectWitness ==
    /\ pc = "cap_save" /\ self.selected_project # self.active_project
    /\ self.img_max_index # self.img_capture_index - 1

\* -------------------------------------------------------- key claims, s a p
\* the position one step forward (s) or backward (a) in a list of n, wrapping
Neighbour(i, n, k) ==
    IF k = "s" THEN (IF i + 1 = n THEN 0 ELSE i + 1)
    ELSE (IF i = 0 THEN n - 1 ELSE i - 1)

NoZeroSpeed ==
    /\ [](self.playback_speed # 0)
    /\ [][KeyHandled({"p"}) =>
            /\ self'.playback_speed = IF self.playback_speed > 0
                                      THEN DEFAULT_PLAYBACK_SPEED
                                      ELSE 0 - DEFAULT_PLAYBACK_SPEED
            /\ self'.playback_speed_index = self.playback_speed_index
            /\ self'.img_shown_index = self.img_shown_index
            /\ self'.img_max_index = self.img_max_index
            /\ self'.selected_project = self.selected_project
            /\ self'.selected_project_index = self.selected_project_index]_vars

\* p was pressed while playing backward at a speed of the table
ToggleBackwardWitness ==
    /\ pc = "capture" /\ self.key = "p"
    /\ self.playback_speed = 0 - DEFAULT_PLAYBACK_SPEED
    /\ self.playback_speed_index > 0

====
